---------------------------- MODULE Spec2Model ----------------------------
(***************************************************************************)
(* waczlib: WaczArchive (src/src/waczlib/wacz.py) and parse_iso_8601_date  *)
(* (src/src/waczlib/helpers.py).                                           *)
(*                                                                         *)
(* The program state is the container on disk (archive) plus what a caller *)
(* observes after a public call: which call it was (lastOp), how it ended  *)
(* (result), the handle ledger (handles): container handles and member     *)
(* read streams still open, the peak number of container handles held at   *)
(* once and the number opened during the call, and how the caller's most   *)
(* recent validate() ended (validated).  WaczArchive keeps nothing but its *)
(* path, so every call recomputes its result from the archive.             *)
(*                                                                         *)
(* Strings are sequences of symbols.  Where the code looks inside a string *)
(* (member names against the regexes, hash strings split on ':') the       *)
(* symbols are single characters; strings the code only copies or hands to *)
(* the date parser are one-symbol sequences.  Dictionary keys are TLA+     *)
(* strings.                                                                *)
(*                                                                         *)
(* JSON values are records [t, x]: t is the Python type json.loads gives   *)
(* ("obj" dict, "arr" list, "str", "num", "null"), x the payload (a        *)
(* function from keys for "obj", a sequence of values for "arr", a symbol  *)
(* sequence for "str").                                                    *)
(***************************************************************************)
EXTENDS Integers, Sequences, FiniteSets, TLC

VARIABLES archive, lastOp, result, handles, validated

vars == <<archive, lastOp, result, handles, validated>>

-----------------------------------------------------------------------------
(* JSON values and the Python operations the code applies to them *)

JObj(f) == [t |-> "obj", x |-> f]
JArr(e) == [t |-> "arr", x |-> e]
JStr(s) == [t |-> "str", x |-> s]
JNum(n) == [t |-> "num", x |-> <<n>>]
JNull == [t |-> "null", x |-> <<>>]

\* the empty dict
EmptyMap == [k \in {} |-> JNull]

\* Python ==  on decoded JSON values
JEq(a, b) == a.t = b.t /\ a.x = b.x

\* outcomes of a call or of a step: a value, or a raised exception
Ok(v) == [kind |-> "ok", reason |-> "", value |-> v]
Raise(exc, why) == [kind |-> exc, reason |-> why, value |-> <<>>]
InvalidWaczError(why) == Raise("InvalidWaczError", why)
IsOk(o) == o.kind = "ok"

\* Python `key in v`: dict key, list element, substring; TypeError otherwise
In(key, v) ==
    CASE v.t = "obj" -> Ok(key \in DOMAIN v.x)
      [] v.t = "arr" -> Ok(\E i \in 1..Len(v.x) : JEq(v.x[i], JStr(<<key>>)))
      [] v.t = "str" -> Ok(\E i \in 1..Len(v.x) : v.x[i] = key)
      [] OTHER -> Raise("TypeError", "argument is not iterable")

\* Python `v[key]` with a string key
Subscript(v, key) ==
    CASE v.t = "obj" -> IF key \in DOMAIN v.x THEN Ok(v.x[key])
                        ELSE Raise("KeyError", key)
      [] OTHER -> Raise("TypeError", "indices must be integers")

\* json.load / json.loads of a member's bytes or of one line.  A document is
\* [enc, v]: bytes that do not decode as text, text that is not JSON, or the
\* text of the JSON value v.
JsonLoad(doc) ==
    CASE doc.enc = "undecodable" -> Raise("UnicodeDecodeError", "invalid start byte")
      [] doc.enc = "notjson" -> Raise("JSONDecodeError", "Expecting value")
      [] OTHER -> Ok(doc.v)

Json(v) == [enc |-> "json", v |-> v]
NotJson == [enc |-> "notjson", v |-> JNull]
Undecodable == [enc |-> "undecodable", v |-> JNull]


-----------------------------------------------------------------------------
(* Member names and the two regexes of validate *)

DATAPACKAGE_JSON == <<"d","a","t","a","p","a","c","k","a","g","e",".","j","s","o","n">>
PAGES_JSONL == <<"p","a","g","e","s","/","p","a","g","e","s",".","j","s","o","n","l">>

ARCHIVE_PREFIX == <<"a","r","c","h","i","v","e","/">>
INDEX_PREFIX == <<"i","n","d","e","x","e","s","/">>
WARC_EXT == <<".","w","a","r","c">>
CDX_EXT == <<".","c","d","x">>
GZ_EXT == <<".","g","z">>

\* re.fullmatch of  prefix .+ ext (\.gz)?  on s: the whole of s is the prefix,
\* then k >= 1 characters none of which is a newline, then ext, then
\* optionally ".gz"
MatchesFull(s, prefix, ext) ==
    LET p == Len(prefix) IN
    /\ Len(s) > p
    /\ SubSeq(s, 1, p) = prefix
    /\ \E k \in 1..(Len(s) - p) :
          /\ \A i \in (p + 1)..(p + k) : s[i] # "\n"
          /\ SubSeq(s, p + k + 1, Len(s)) \in {ext, ext \o GZ_EXT}

\* re.compile(r'archive/.+\.warc(\.gz)?').fullmatch(file)
ArchiveRegexMatch(file) == MatchesFull(file, ARCHIVE_PREFIX, WARC_EXT)

\* re.compile(r'indexes/.+\.cdx(\.gz)?').fullmatch(file)
IndexRegexMatch(file) == MatchesFull(file, INDEX_PREFIX, CDX_EXT)

-----------------------------------------------------------------------------
(* The handle ledger and the scoped acquisition of _get_zip *)

NoHandles == [zips |-> 0, streams |-> 0, peak |-> 0, opened |-> 0]

Max(a, b) == IF a >= b THEN a ELSE b

\* ZipFile(self._path, 'r') succeeded: one more container handle
ZipEnter(h) ==
    [h EXCEPT !.zips = @ + 1, !.peak = Max(@, h.zips + 1), !.opened = @ + 1]

\* a variant that closes only when the body returns normally
ZipExitNoFinally(h, raised) == IF raised THEN h ELSE [h EXCEPT !.zips = @ - 1]

\* the finally clause of _get_zip: zip_file.close() runs whether or not the
\* body raised
ZipExit(h, raised) == [h EXCEPT !.zips = @ - 1]

\* zip_file.open(name) as a context manager: the stream is closed on exit
StreamEnter(h) == [h EXCEPT !.streams = @ + 1]
StreamExit(h, raised) == [h EXCEPT !.streams = @ - 1]

\* a step's outcome together with the ledger after it
Step(o, h) == [out |-> o, h |-> h]

\* `with self._get_zip() as zip_file: body`.  When ZipFile() itself raises
\* (the path is no readable zip), zip_file is unbound in the finally clause
\* and the UnboundLocalError replaces the original error; no handle exists.
\* body is the step the block makes with the handle open.
WithZip(a, h, body) ==
    IF ~a.openable
    THEN Step(Raise("UnboundLocalError", "zip_file"), h)
    ELSE Step(body.out, ZipExit(body.h, ~IsOk(body.out)))

-----------------------------------------------------------------------------
(* helpers.parse_iso_8601_date *)

\* the instant an ISO-8601 text denotes; 0 for a text the parser rejects.
\* Two texts may denote one instant.
IsoInstant(text) ==
    CASE text = <<"2023-07-04T12:25:53.900Z">> -> 1
      [] text = <<"2023-07-04T12:25:53.900+00:00">> -> 1
      [] text = <<"2023-07-04T12:25:55.274Z">> -> 2
      [] OTHER -> 0

Datetime(instant) == [t |-> "datetime", x |-> <<instant>>]

\* datetime.fromisoformat / dateutil isoparse: a str is parsed or rejected
\* with ValueError; any other argument raises TypeError
parse_iso_8601_date(datestr) ==
    IF datestr.t # "str"
    THEN Raise("TypeError", "fromisoformat: argument must be str")
    ELSE IF IsoInstant(datestr.x) = 0
         THEN Raise("ValueError", "Invalid isoformat string")
         ELSE Ok(Datetime(IsoInstant(datestr.x)))

-----------------------------------------------------------------------------
(* WaczArchive._get_datapackage *)

DATA_PACKAGE == JStr(<<"data-package">>)

\* the three key checks made on the decoded document, in source order
CheckDatapackage(datapackage) ==
    LET hasProfile == In("profile", datapackage)
        profile == Subscript(datapackage, "profile")
        hasVersion == In("wacz_version", datapackage)
        hasResources == In("resources", datapackage)
        resources == Subscript(datapackage, "resources")
    IN  IF ~IsOk(hasProfile) THEN hasProfile
        ELSE IF ~hasProfile.value
        THEN InvalidWaczError("profile must be set to 'data-package'")
        ELSE IF ~IsOk(profile) THEN profile
        ELSE IF ~JEq(profile.value, DATA_PACKAGE)
        THEN InvalidWaczError("profile must be set to 'data-package'")
        ELSE IF ~IsOk(hasVersion) THEN hasVersion
        ELSE IF ~hasVersion.value
        THEN InvalidWaczError("wacz_version must be set")
        ELSE IF ~IsOk(hasResources) THEN hasResources
        ELSE IF ~hasResources.value
        THEN InvalidWaczError("resources must be set to an non empty array")
        ELSE IF ~IsOk(resources) THEN resources
        ELSE IF resources.value.t # "arr" \/ Len(resources.value.x) = 0
        THEN InvalidWaczError("resources must be set to an non empty array")
        ELSE Ok(datapackage)

\* json.load(datapackage_file) inside try/except json.JSONDecodeError
LoadDatapackage(doc) ==
    LET loaded == JsonLoad(doc)
    IN  IF loaded.kind = "JSONDecodeError"
        THEN InvalidWaczError("datapackage.json is not a valid JSON file")
        ELSE loaded

_get_datapackage(a, h) ==
    WithZip(a, h,
        LET h1 == ZipEnter(h)
            loaded == LoadDatapackage(a.datapackage)
            \* the member stream is open only around json.load
            h2 == StreamExit(StreamEnter(h1), ~IsOk(loaded))
        IN  IF DATAPACKAGE_JSON \notin a.names
            THEN Step(InvalidWaczError("Does not contain datapackage.json"), h1)
            ELSE IF ~IsOk(loaded) THEN Step(loaded, h2)
            ELSE Step(CheckDatapackage(loaded.value), h2))

-----------------------------------------------------------------------------
(* WaczArchive.get_metadata *)

DateReason(key) ==
    CASE key = "created" -> "created must be an iso date time string"
      [] key = "modified" -> "modified must be an iso date time string"
      [] key = "main_page_date" -> "main_page_date must be an iso date time string"

\* x = None; if key in datapackage: try parse except ValueError: raise
DateField(datapackage, key) ==
    IF key \notin DOMAIN datapackage.x THEN Ok(JNull)
    ELSE LET parsed == parse_iso_8601_date(datapackage.x[key])
         IN  IF parsed.kind = "ValueError"
             THEN InvalidWaczError(DateReason(key))
             ELSE parsed

\* datapackage[key] if key in datapackage else None
Optional(d, key) == IF key \in DOMAIN d.x THEN d.x[key] ELSE JNull

WaczMetadata(datapackage, created, modified, main_page_date) ==
    [wacz_version |-> datapackage.x["wacz_version"],
     title |-> Optional(datapackage, "title"),
     description |-> Optional(datapackage, "description"),
     created |-> created,
     modified |-> modified,
     software |-> Optional(datapackage, "software"),
     main_page_url |-> Optional(datapackage, "mainPageUrl"),
     main_page_date |-> main_page_date]

get_metadata(a, h) ==
    LET dp == _get_datapackage(a, h)
        created == DateField(dp.out.value, "created")
        modified == DateField(dp.out.value, "modified")
        main_page_date == DateField(dp.out.value, "main_page_date")
    IN  IF ~IsOk(dp.out) THEN dp
        ELSE IF ~IsOk(created) THEN Step(created, dp.h)
        ELSE IF ~IsOk(modified) THEN Step(modified, dp.h)
        ELSE IF ~IsOk(main_page_date) THEN Step(main_page_date, dp.h)
        ELSE Step(Ok(WaczMetadata(dp.out.value, created.value, modified.value,
                                  main_page_date.value)), dp.h)

-----------------------------------------------------------------------------
(* WaczArchive._validate_page, _validate_pages, validate *)

\* a variant that accepts a page without ts
ValidatePageNoTs(page_line) ==
    LET page == JsonLoad(page_line)
        hasUrl == In("url", page.value)
    IN  IF ~IsOk(page) THEN page
        ELSE IF ~IsOk(hasUrl) THEN hasUrl
        ELSE IF ~hasUrl.value
        THEN InvalidWaczError("page does not contain url property")
        ELSE Ok(JNull)

_validate_page(page_line) ==
    LET page == JsonLoad(page_line)
        hasUrl == In("url", page.value)
        hasTs == In("ts", page.value)
    IN  IF ~IsOk(page) THEN page
        ELSE IF ~IsOk(hasUrl) THEN hasUrl
        ELSE IF ~hasUrl.value
        THEN InvalidWaczError("page does not contain url property")
        ELSE IF ~IsOk(hasTs) THEN hasTs
        ELSE IF ~hasTs.value
        THEN InvalidWaczError("page does not contain ts property")
        ELSE Ok(JNull)

\* for idx, line in enumerate(pages_file.readlines()): lines[1] is idx 0
RECURSIVE ValidateLines(_, _)
ValidateLines(lines, i) ==
    IF i > Len(lines) THEN Ok(JNull)
    ELSE IF i = 1 THEN ValidateLines(lines, i + 1)
    ELSE LET checked == _validate_page(lines[i])
         IN  IF ~IsOk(checked) THEN checked
             ELSE ValidateLines(lines, i + 1)

_validate_pages(a, h) ==
    LET checked == ValidateLines(a.pages, 1)
    IN  Step(checked, StreamExit(StreamEnter(h), ~IsOk(checked)))

validate(a, h) ==
    WithZip(a, h,
        LET h1 == ZipEnter(h)
            files == a.names
            datapackage == _get_datapackage(a, h1)
            archive_files == {file \in files : ArchiveRegexMatch(file)}
            index_files == {file \in files : IndexRegexMatch(file)}
        IN  IF ~IsOk(datapackage.out) THEN datapackage
            ELSE IF Cardinality(archive_files) = 0
            THEN Step(InvalidWaczError("Wacz must contain at least one web archive"),
                      datapackage.h)
            ELSE IF Cardinality(index_files) = 0
            THEN Step(InvalidWaczError("Wacz must contain at least one index file"),
                      datapackage.h)
            ELSE IF PAGES_JSONL \notin files
            THEN Step(InvalidWaczError("Does not contain pages/pages.jsonl"),
                      datapackage.h)
            ELSE _validate_pages(a, datapackage.h))

-----------------------------------------------------------------------------
(* WaczArchive.get_pages *)

\* the WaczPage(...) call: keyword arguments are evaluated left to right
WaczPage(page_data) ==
    LET url == Subscript(page_data, "url")
        tsv == Subscript(page_data, "ts")
        ts == parse_iso_8601_date(tsv.value)
    IN  IF ~IsOk(url) THEN url
        ELSE IF ~IsOk(tsv) THEN tsv
        ELSE IF ~IsOk(ts) THEN ts
        ELSE Ok([url |-> url.value,
                 ts |-> ts.value,
                 title |-> Optional(page_data, "title"),
                 id |-> Optional(page_data, "id"),
                 text |-> Optional(page_data, "text"),
                 size |-> Optional(page_data, "size")])

\* a variant of the loop that does not skip idx 0
RECURSIVE PagesLoopNoSkip(_, _, _)
PagesLoopNoSkip(lines, i, pages) ==
    IF i > Len(lines) THEN Ok(pages)
    ELSE LET checked == _validate_page(lines[i])
             page == WaczPage(JsonLoad(lines[i]).value)
         IN  IF ~IsOk(checked) THEN checked
             ELSE IF ~IsOk(page) THEN page
             ELSE PagesLoopNoSkip(lines, i + 1, Append(pages, page.value))

\* for idx, line in enumerate(pages_file): skip idx 0, validate, build, append
RECURSIVE PagesLoop(_, _, _)
PagesLoop(lines, i, pages) ==
    IF i > Len(lines) THEN Ok(pages)
    ELSE IF i = 1 THEN PagesLoop(lines, i + 1, pages)
    ELSE LET checked == _validate_page(lines[i])
             page == WaczPage(JsonLoad(lines[i]).value)
         IN  IF ~IsOk(checked) THEN checked
             ELSE IF ~IsOk(page) THEN page
             ELSE PagesLoop(lines, i + 1, Append(pages, page.value))

get_pages(a, h) ==
    WithZip(a, h,
        LET h1 == ZipEnter(h)
            pages == PagesLoop(a.pages, 1, <<>>)
        IN  IF PAGES_JSONL \notin a.names
            THEN Step(InvalidWaczError("Does not contain pages/pages.jsonl"), h1)
            ELSE Step(pages, StreamExit(StreamEnter(h1), ~IsOk(pages))))

-----------------------------------------------------------------------------
(* WaczArchive.verify_checksums *)

\* str.split(':', 1): the parts around the first ':' (one part when none)
SplitFirstColon(s) ==
    IF \E i \in 1..Len(s) : s[i] = ":"
    THEN LET i == CHOOSE j \in 1..Len(s) :
                      s[j] = ":" /\ \A k \in 1..(j - 1) : s[k] # ":"
         IN  <<SubSeq(s, 1, i - 1), SubSeq(s, i + 1, Len(s))>>
    ELSE <<s>>

MD5 == <<"m","d","5">>
MD5_UPPER == <<"M","D","5">>
SHA1 == <<"s","h","a","1">>

\* hashlib.new(name): the names the hash primitive knows (it takes the
\* upper-case spelling too); any other name raises ValueError
HashlibKnows(name) == name \in {MD5, MD5_UPPER, SHA1}

\* m.update(file.read()); m.hexdigest(): lower-case hex of the member's bytes.
\* Member contents are the tokens "c1" and "c2".
HexDigest(name, content) ==
    CASE name \in {MD5, MD5_UPPER} /\ content = "c1" -> <<"a","1">>
      [] name \in {MD5, MD5_UPPER} /\ content = "c2" -> <<"b","2">>
      [] name = SHA1 /\ content = "c1" -> <<"c","3">>
      [] name = SHA1 /\ content = "c2" -> <<"d","4">>

\* a variant of the comparison that ignores the case of hex letters
LowerHex(c) ==
    CASE c = "A" -> "a" [] c = "B" -> "b" [] c = "C" -> "c" [] c = "D" -> "d"
      [] OTHER -> c
DigestMatchesAnyCase(calculated_digest, hash_value) ==
    calculated_digest = [i \in 1..Len(hash_value) |-> LowerHex(hash_value[i])]

\* calculated_digest == hash_value
DigestMatches(calculated_digest, hash_value) == calculated_digest = hash_value

\* checksums[path] = matched
SetItem(checksums, path, matched) ==
    [p \in (DOMAIN checksums) \cup {path} |->
        IF p = path THEN matched ELSE checksums[p]]

\* zip_file.open(resource['path'], 'r'): the member must exist
OpenMember(a, resource) ==
    LET path == Subscript(resource, "path")
    IN  IF ~IsOk(path) THEN path
        ELSE IF path.value.t \in {"arr", "obj"}
        THEN Raise("TypeError", "unhashable type")
        ELSE IF path.value.t # "str" \/ path.value.x \notin a.names
        THEN Raise("KeyError", "There is no item named that in the archive")
        ELSE Ok(path.value.x)

\* the body of the loop for one resource that has 'hash': the outcome is the
\* pair <<path, matched>> or the exception raised
CheckResource(a, resource, h) ==
    LET hash == Subscript(resource, "hash")
        parts == SplitFirstColon(hash.value.x)
        hash_algo == parts[1]
        hash_value == parts[2]
        opened == OpenMember(a, resource)
    IN  IF ~IsOk(hash) THEN Step(hash, h)
        ELSE IF hash.value.t # "str"
        THEN Step(Raise("AttributeError", "object has no attribute 'split'"), h)
        ELSE IF Len(parts) # 2
        THEN Step(Raise("ValueError", "not enough values to unpack"), h)
        ELSE WithZip(a, h,
                LET h1 == ZipEnter(h)
                    h2 == StreamExit(StreamEnter(h1), ~HashlibKnows(hash_algo))
                IN  IF ~IsOk(opened) THEN Step(opened, h1)
                    ELSE IF ~HashlibKnows(hash_algo)
                    THEN Step(Raise("ValueError", "unsupported hash type"), h2)
                    ELSE Step(Ok(<<opened.value,
                                   DigestMatches(
                                       HexDigest(hash_algo, a.content[opened.value]),
                                       hash_value)>>), h2))

\* for resource in datapackage['resources']
RECURSIVE ChecksumLoop(_, _, _, _, _)
ChecksumLoop(a, resources, i, checksums, h) ==
    IF i > Len(resources) THEN Step(Ok(checksums), h)
    ELSE LET resource == resources[i]
             hasHash == In("hash", resource)
             one == CheckResource(a, resource, h)
         IN  IF ~IsOk(hasHash) THEN Step(hasHash, h)
             ELSE IF ~hasHash.value
             THEN ChecksumLoop(a, resources, i + 1, checksums, h)
             ELSE IF ~IsOk(one.out) THEN one
             ELSE ChecksumLoop(a, resources, i + 1,
                      SetItem(checksums, one.out.value[1], one.out.value[2]),
                      one.h)

\* checksums = {}
EmptyChecksums == [p \in {} |-> FALSE]

verify_checksums(a, h) ==
    LET datapackage == _get_datapackage(a, h)
    IN  IF ~IsOk(datapackage.out) THEN datapackage
        ELSE ChecksumLoop(a, datapackage.out.value.x["resources"].x, 1,
                          EmptyChecksums, datapackage.h)

-----------------------------------------------------------------------------
(* The archives the model draws from *)

\* most lines of pages/pages.jsonl, the header line included
MaxLines == 3
\* most resource descriptors in the manifest
MaxResources == 2

N_WARC == ARCHIVE_PREFIX \o <<"a">> \o WARC_EXT
N_WARC_GZ == ARCHIVE_PREFIX \o <<"a">> \o WARC_EXT \o GZ_EXT
N_WARC_NOSTEM == ARCHIVE_PREFIX \o WARC_EXT
N_WARC_PREFIXED == <<"x">> \o ARCHIVE_PREFIX \o <<"a">> \o WARC_EXT
N_WARC_SUFFIXED == ARCHIVE_PREFIX \o <<"a">> \o WARC_EXT \o <<"x">>
N_WARC_NEWLINE == ARCHIVE_PREFIX \o <<"\n">> \o WARC_EXT
N_CDX == INDEX_PREFIX \o <<"i">> \o CDX_EXT
N_CDX_GZ == INDEX_PREFIX \o <<"d","/","i">> \o CDX_EXT \o GZ_EXT
N_CDX_NOSTEM == INDEX_PREFIX \o CDX_EXT \o GZ_EXT
N_GONE == ARCHIVE_PREFIX \o <<"g">> \o WARC_EXT

ArchiveChoices ==
    {{}, {N_WARC}, {N_WARC_GZ}, {N_WARC_NOSTEM}, {N_WARC_PREFIXED},
     {N_WARC_SUFFIXED}, {N_WARC_NEWLINE}, {N_WARC_NOSTEM, N_WARC_GZ}}
IndexChoices == {{}, {N_CDX}, {N_CDX_GZ}, {N_CDX_NOSTEM}}

DefaultNames == {DATAPACKAGE_JSON, PAGES_JSONL, N_WARC_GZ, N_CDX}

\* the bytes of the data members: the index holds "c2", the others "c1"
ContentOf(names) == [n \in names |-> IF n = N_CDX THEN "c2" ELSE "c1"]

Restrict(f, S) == [k \in S |-> f[k]]

HashStr(algo, hex) == JStr(algo \o <<":">> \o hex)

GoodResource == JObj([path |-> JStr(N_WARC_GZ), hash |-> HashStr(MD5, <<"a","1">>)])

ISO_1 == JStr(<<"2023-07-04T12:25:53.900Z">>)
ISO_1_OFFSET == JStr(<<"2023-07-04T12:25:53.900+00:00">>)
ISO_2 == JStr(<<"2023-07-04T12:25:55.274Z">>)
NOT_ISO == JStr(<<"yesterday">>)

ManifestFields ==
    [profile |-> DATA_PACKAGE,
     wacz_version |-> JStr(<<"1.1.1">>),
     resources |-> JArr(<<GoodResource>>),
     title |-> JStr(<<"valid-example">>),
     description |-> JStr(<<"an example">>),
     software |-> JStr(<<"Webrecorder ArchiveWeb.page 0.10.1">>),
     mainPageUrl |-> JStr(<<"https://example.org/">>),
     created |-> ISO_1,
     modified |-> ISO_2,
     main_page_date |-> ISO_1_OFFSET]

RequiredKeys == {"profile", "wacz_version", "resources"}

GoodManifest == Json(JObj(Restrict(ManifestFields, RequiredKeys)))

HeaderLine == Json(JObj([format |-> JStr(<<"json-pages-1.0">>)]))

PageFields ==
    [url |-> JStr(<<"https://example.org/">>),
     ts |-> ISO_2,
     title |-> JStr(<<"Example Domain">>),
     id |-> JStr(<<"49jh9ns3x0sqyifk124fng">>),
     text |-> JStr(<<"Example Domain...">>),
     size |-> JNum(2512)]

Page(keys) == Json(JObj(Restrict(PageFields, keys)))
PageWith(keys, key, v) ==
    Json(JObj([k \in keys \cup {key} |-> IF k = key THEN v ELSE PageFields[k]]))

GoodPage == Page({"url", "ts"})
DefaultPages == <<HeaderLine, GoodPage>>

\* what line 0 may be
HeaderLines == <<HeaderLine, NotJson>>

\* what a later line may be
DataLines ==
    <<Page({"url", "ts", "title", "id", "text", "size"}),
      PageWith({"url"}, "ts", ISO_1),
      PageWith({"url", "ts", "id"}, "title", JNull),
      Page({"ts", "title"}),
      Page({"url", "size"}),
      Page({}),
      PageWith({"url"}, "ts", NOT_ISO),
      PageWith({"url"}, "ts", JNum(5)),
      NotJson,
      Undecodable,
      Json(JNum(5)),
      Json(JArr(<<>>)),
      Json(JArr(<<JStr(<<"url">>), JStr(<<"ts">>)>>)),
      Json(JStr(<<"url", "&", "ts">>))>>

\* documents datapackage.json may hold that are no JSON object
OddManifests ==
    <<NotJson, Undecodable, Json(JNum(5)), Json(JNull), Json(JArr(<<>>)),
      Json(JArr(<<JStr(<<"profile">>)>>)), Json(JStr(<<"profile">>))>>

ProfileValues == <<DATA_PACKAGE, JStr(<<"tabular-data-package">>), JNum(1)>>
ResourcesValues ==
    <<JArr(<<GoodResource>>), JArr(<<>>), JStr(<<"resources">>), JObj(EmptyMap),
      JNull>>

\* a JSON object manifest: each required key absent (choice 0) or present
\* with the chosen value
ObjectManifest(p, v, r) ==
    Json(JObj([k \in (IF p = 0 THEN {} ELSE {"profile"})
                 \cup (IF v = 0 THEN {} ELSE {"wacz_version"})
                 \cup (IF r = 0 THEN {} ELSE {"resources"}) |->
        CASE k = "profile" -> ProfileValues[p]
          [] k = "wacz_version" -> JStr(<<"1.1.1">>)
          [] k = "resources" -> ResourcesValues[r]]))

DateValues == <<ISO_1, ISO_1_OFFSET, NOT_ISO, JNum(5), JNull>>
TitleValues == <<JStr(<<"valid-example">>), JNull>>

\* a manifest that passes the loader, with each date key absent (0) or set
MetadataManifest(c, m, d, t, others) ==
    Json(JObj([k \in RequiredKeys
                 \cup (IF c = 0 THEN {} ELSE {"created"})
                 \cup (IF m = 0 THEN {} ELSE {"modified"})
                 \cup (IF d = 0 THEN {} ELSE {"main_page_date"})
                 \cup (IF t = 0 THEN {} ELSE {"title"})
                 \cup others |->
        CASE k = "created" -> DateValues[c]
          [] k = "modified" -> DateValues[m]
          [] k = "main_page_date" -> DateValues[d]
          [] k = "title" -> TitleValues[t]
          [] OTHER -> ManifestFields[k]]))

Desc(path, hash) == JObj([path |-> JStr(path), hash |-> hash])
DescNoHash(path) == JObj([path |-> JStr(path)])

\* what a resource descriptor may be
Descriptors ==
    <<Desc(N_WARC_GZ, HashStr(MD5, <<"a","1">>)),
      Desc(N_WARC_GZ, HashStr(MD5, <<"A","1">>)),
      Desc(N_WARC_GZ, HashStr(MD5, <<"b","2">>)),
      Desc(N_WARC_GZ, HashStr(MD5_UPPER, <<"a","1">>)),
      Desc(N_WARC_GZ, HashStr(SHA1, <<"c","3">>)),
      Desc(N_WARC_GZ, HashStr(MD5, <<"a","1",":","x">>)),
      Desc(N_CDX, HashStr(MD5, <<"b","2">>)),
      Desc(N_CDX, HashStr(SHA1, <<"c","3">>)),
      DescNoHash(N_WARC_GZ),
      DescNoHash(N_CDX),
      DescNoHash(N_GONE),
      Desc(N_GONE, HashStr(MD5, <<"a","1">>)),
      Desc(N_WARC_GZ, HashStr(<<"c","r","c">>, <<"a","1">>)),
      Desc(N_GONE, HashStr(<<"c","r","c">>, <<"a","1">>)),
      Desc(N_WARC_GZ, JStr(MD5)),
      Desc(N_WARC_GZ, JNum(5)),
      JObj([hash |-> HashStr(MD5, <<"a","1">>)]),
      JNum(5),
      JArr(<<>>),
      JStr(<<"hash">>)>>

ResourcesManifest(resources) ==
    Json(JObj([profile |-> DATA_PACKAGE,
               wacz_version |-> JStr(<<"1.1.1">>),
               resources |-> JArr(resources)]))

Archive(names, datapackage, pages) ==
    [openable |-> TRUE, names |-> names, content |-> ContentOf(names),
     datapackage |-> datapackage, pages |-> pages]

\* a path that is no readable zip file
Unopenable ==
    [openable |-> FALSE, names |-> {}, content |-> ContentOf({}),
     datapackage |-> NotJson, pages |-> <<>>]

\* member sets, against a good, a rejected and an unparseable manifest and
\* three page listings
ValidateArchives(a) ==
    \E dp \in SUBSET {DATAPACKAGE_JSON}, pg \in SUBSET {PAGES_JSONL},
       ar \in ArchiveChoices, ix \in IndexChoices,
       m \in {GoodManifest, ObjectManifest(1, 1, 2), NotJson},
       p \in {DefaultPages, <<HeaderLine, Page({"ts"})>>, <<HeaderLine, NotJson>>} :
        a = Archive(dp \cup pg \cup ar \cup ix, m, p)

\* manifests, with and without the member
LoaderArchives(a) ==
    \E dp \in SUBSET {DATAPACKAGE_JSON} :
        \/ \E i \in 1..Len(OddManifests) :
              a = Archive((DefaultNames \ {DATAPACKAGE_JSON}) \cup dp,
                          OddManifests[i], DefaultPages)
        \/ \E p \in 0..Len(ProfileValues), v \in 0..1, r \in 0..Len(ResourcesValues) :
              a = Archive((DefaultNames \ {DATAPACKAGE_JSON}) \cup dp,
                          ObjectManifest(p, v, r), DefaultPages)

\* manifests that pass the loader, over the optional keys
MetadataArchives(a) ==
    \E c \in 0..Len(DateValues), m \in 0..Len(DateValues), d \in 0..Len(DateValues),
       t \in 0..Len(TitleValues),
       others \in {{}, {"description", "software", "mainPageUrl"}} :
        a = Archive(DefaultNames, MetadataManifest(c, m, d, t, others), DefaultPages)

\* page listings of up to MaxLines lines, with and without the member, against
\* a good manifest, an unparseable one and none
PagesArchives(a) ==
    \E n \in 0..MaxLines :
      \E f \in [1..n -> 1..Len(DataLines)] :
        /\ n >= 1 => f[1] <= Len(HeaderLines)
        /\ \E pg \in SUBSET {PAGES_JSONL}, dp \in SUBSET {DATAPACKAGE_JSON},
              m \in {GoodManifest, NotJson} :
             a = Archive((DefaultNames \ {PAGES_JSONL, DATAPACKAGE_JSON})
                             \cup pg \cup dp,
                         m,
                         [i \in 1..n |-> IF i = 1 THEN HeaderLines[f[i]]
                                         ELSE DataLines[f[i]]])

\* manifests of 1..MaxResources resource descriptors
ChecksumArchives(a) ==
    \E n \in 1..MaxResources :
      \E f \in [1..n -> 1..Len(Descriptors)] :
        a = Archive(DefaultNames,
                    ResourcesManifest([i \in 1..n |-> Descriptors[f[i]]]),
                    DefaultPages)

-----------------------------------------------------------------------------
(* The state machine: a caller makes public calls in any order *)

NoResult == [kind |-> "none", reason |-> "", value |-> <<>>]

Init ==
    /\ \/ archive = Unopenable
       \/ ValidateArchives(archive)
       \/ LoaderArchives(archive)
       \/ MetadataArchives(archive)
       \/ PagesArchives(archive)
       \/ ChecksumArchives(archive)
    /\ lastOp = "none"
    /\ result = NoResult
    /\ handles = NoHandles
    /\ validated = "unknown"

\* the ledger a call starts from: what is still open, nothing opened yet
AtCall(h) == [h EXCEPT !.peak = h.zips, !.opened = 0]

Returned(op, step) ==
    /\ lastOp' = op
    /\ result' = step.out
    /\ handles' = step.h
    /\ UNCHANGED archive

Validate ==
    LET step == validate(archive, AtCall(handles))
    IN  /\ Returned("validate", step)
        /\ validated' = IF IsOk(step.out) THEN "ok" ELSE "failed"

VerifyChecksums ==
    /\ Returned("verify_checksums", verify_checksums(archive, AtCall(handles)))
    /\ UNCHANGED validated

GetMetadata ==
    /\ Returned("get_metadata", get_metadata(archive, AtCall(handles)))
    /\ UNCHANGED validated

GetPages ==
    /\ Returned("get_pages", get_pages(archive, AtCall(handles)))
    /\ UNCHANGED validated

Next == Validate \/ VerifyChecksums \/ GetMetadata \/ GetPages

Spec == Init /\ [][Next]_vars

-----------------------------------------------------------------------------
(* What the claims speak of, written from the archive alone *)

IWE == "InvalidWaczError"

Manifest == archive.datapackage.v
Lines == archive.pages
NonHeader == 2..Len(Lines)

IsObject(doc) == doc.enc = "json" /\ doc.v.t = "obj"
HasField(doc, key) == IsObject(doc) /\ key \in DOMAIN doc.v.x

\* the reason the manifest loader is to give, "" when the manifest passes
LoaderReason ==
    IF DATAPACKAGE_JSON \notin archive.names
    THEN "Does not contain datapackage.json"
    ELSE IF archive.datapackage.enc # "json"
    THEN "datapackage.json is not a valid JSON file"
    ELSE IF ~(HasField(archive.datapackage, "profile")
              /\ Manifest.x["profile"] = DATA_PACKAGE)
    THEN "profile must be set to 'data-package'"
    ELSE IF ~HasField(archive.datapackage, "wacz_version")
    THEN "wacz_version must be set"
    ELSE IF ~(HasField(archive.datapackage, "resources")
              /\ Manifest.x["resources"].t = "arr"
              /\ Len(Manifest.x["resources"].x) > 0)
    THEN "resources must be set to an non empty array"
    ELSE ""

ManifestPasses == archive.openable /\ LoaderReason = ""

\* a page line that is a JSON object with url and a ts the parser accepts
ValidRecord(line) ==
    /\ HasField(line, "url")
    /\ HasField(line, "ts")
    /\ line.v.x["ts"].t = "str"
    /\ IsoInstant(line.v.x["ts"].x) # 0

\* a page line that does not parse as JSON, or lacks url, or lacks ts
Offending(line) == ~HasField(line, "url") \/ ~HasField(line, "ts")

PageReason(line) ==
    IF ~HasField(line, "url") THEN "page does not contain url property"
    ELSE "page does not contain ts property"

RecordCount == IF Len(Lines) = 0 THEN 0 ELSE Len(Lines) - 1

OptionalPageKeys == {"title", "id", "text", "size"}

-----------------------------------------------------------------------------
(* C1 *)

\* the outcome of validate() by the five checks in their order
ValidateReason ==
    IF LoaderReason # "" THEN LoaderReason
    ELSE IF ~\E n \in archive.names : ArchiveRegexMatch(n)
    THEN "Wacz must contain at least one web archive"
    ELSE IF ~\E n \in archive.names : IndexRegexMatch(n)
    THEN "Wacz must contain at least one index file"
    ELSE IF PAGES_JSONL \notin archive.names
    THEN "Does not contain pages/pages.jsonl"
    ELSE IF \E i \in NonHeader : Offending(Lines[i])
    THEN PageReason(Lines[CHOOSE i \in NonHeader :
                              /\ Offending(Lines[i])
                              /\ \A j \in 2..(i - 1) : ~Offending(Lines[j])])
    ELSE ""

\* C1: for every archive, validate() returns without error exactly when none
\* of the five checks (manifest loader, archive member, index member,
\* pages/pages.jsonl present, page lines have url and ts) is violated, and
\* otherwise fails with InvalidWaczError carrying the reason of the first
\* violated check.
C1_ValidateFirstViolation ==
    (lastOp = "validate" /\ archive.openable) =>
        IF ValidateReason = "" THEN result = Ok(JNull)
        ELSE result = InvalidWaczError(ValidateReason)

-----------------------------------------------------------------------------
(* C2 *)

\* C2: the manifest loader used by validate, get_metadata and
\* verify_checksums fails with InvalidWaczError and the reason of the first
\* violated manifest check (member absent, not valid JSON, profile, version,
\* resources), so that get_metadata and verify_checksums return a value only
\* for manifests that pass every check.
C2_LoaderFirstViolation ==
    (lastOp \in {"validate", "get_metadata", "verify_checksums"}
     /\ archive.openable /\ LoaderReason # "") =>
        result = InvalidWaczError(LoaderReason)

-----------------------------------------------------------------------------
(* C3 *)

Resources == Manifest.x["resources"].x

DeclaresHash(d) == d.t = "obj" /\ "hash" \in DOMAIN d.x
Hashed == {i \in 1..Len(Resources) : DeclaresHash(Resources[i])}
PathOf(d) == d.x["path"].x

\* the descriptor has a string path and, when it declares a hash, the hash
\* is a string with a ':' in it
WellFormed(d) ==
    /\ d.t = "obj"
    /\ "path" \in DOMAIN d.x
    /\ d.x["path"].t = "str"
    /\ DeclaresHash(d) =>
          /\ d.x["hash"].t = "str"
          /\ \E k \in 1..Len(d.x["hash"].x) : d.x["hash"].x[k] = ":"

\* the algorithm named before the first ':' of the descriptor's hash
AlgorithmOf(d) ==
    LET hs == d.x["hash"].x
        k == CHOOSE c \in 1..Len(hs) : hs[c] = ":" /\ \A b \in 1..(c - 1) : hs[b] # ":"
    IN  SubSeq(hs, 1, k - 1)

\* the digest of the member under the declared algorithm is, character for
\* character, what follows the first ':' of the descriptor's hash
Matches(d) ==
    LET hs == d.x["hash"].x
        k == CHOOSE c \in 1..Len(hs) : hs[c] = ":" /\ \A b \in 1..(c - 1) : hs[b] # ":"
    IN  HexDigest(SubSeq(hs, 1, k - 1), archive.content[PathOf(d)])
            = SubSeq(hs, k + 1, Len(hs))

\* every descriptor is well formed, names a member and a known algorithm
Verifiable ==
    \A i \in 1..Len(Resources) :
        /\ WellFormed(Resources[i])
        /\ DeclaresHash(Resources[i]) =>
              /\ PathOf(Resources[i]) \in archive.names
              /\ HashlibKnows(AlgorithmOf(Resources[i]))

\* C3: when verify_checksums() returns a map, its keys are exactly the paths
\* of the descriptors that declare a hash, and each value tells whether the
\* digest of the member equals, case-sensitively, what follows the first ':'
\* of the hash (for a path declared twice, of its last declaration); a
\* mismatch is a false value, never an error.
C3_ChecksumMap ==
    (lastOp = "verify_checksums" /\ ManifestPasses) =>
        /\ Verifiable => IsOk(result)
        /\ IsOk(result) =>
              /\ DOMAIN result.value = {PathOf(Resources[i]) : i \in Hashed}
              /\ \A i \in Hashed :
                    (\A j \in Hashed :
                        j > i => PathOf(Resources[j]) # PathOf(Resources[i]))
                    => (result.value[PathOf(Resources[i])] <=> Matches(Resources[i]))

\* a map with a matching and a mismatching path
C3_Witness ==
    /\ lastOp = "verify_checksums"
    /\ IsOk(result)
    /\ \E p, q \in DOMAIN result.value : result.value[p] /\ ~result.value[q]

-----------------------------------------------------------------------------
(* C4, C5 *)

\* C4: in verify_checksums(), a descriptor that declares a hash and names a
\* path that is no member of the container makes the call fail with
\* InvalidWaczError.
C4_MissingMemberIsTyped ==
    (/\ lastOp = "verify_checksums"
     /\ ManifestPasses
     /\ \A i \in 1..Len(Resources) :
           /\ WellFormed(Resources[i])
           /\ DeclaresHash(Resources[i]) => HashlibKnows(AlgorithmOf(Resources[i]))
     /\ \E i \in Hashed : PathOf(Resources[i]) \notin archive.names)
    => result.kind = IWE

\* C5: in verify_checksums(), a hash naming an algorithm the hash primitive
\* does not support makes the call fail with InvalidWaczError.
C5_UnsupportedAlgorithmIsTyped ==
    (/\ lastOp = "verify_checksums"
     /\ ManifestPasses
     /\ \A i \in 1..Len(Resources) :
           /\ WellFormed(Resources[i])
           /\ DeclaresHash(Resources[i]) => PathOf(Resources[i]) \in archive.names
     /\ \E i \in Hashed : ~HashlibKnows(AlgorithmOf(Resources[i])))
    => result.kind = IWE

-----------------------------------------------------------------------------
(* C6 *)

DateKeys == {"created", "modified", "main_page_date"}

\* the parser rejects the value of a date key that is present
Rejected(key) ==
    /\ key \in DOMAIN Manifest.x
    /\ \/ Manifest.x[key].t # "str"
       \/ IsoInstant(Manifest.x[key].x) = 0

\* a date field of the result: null when absent, else the parsed timestamp
DateResult(key) ==
    IF key \in DOMAIN Manifest.x
    THEN Datetime(IsoInstant(Manifest.x[key].x))
    ELSE JNull

\* a copied field of the result: the value when present, else null
Copied(key) == IF key \in DOMAIN Manifest.x THEN Manifest.x[key] ELSE JNull

\* C6: for a manifest that passes the loader, get_metadata() fails with
\* InvalidWaczError naming the field when the parser rejects the value of a
\* date key that is present, whatever the value; otherwise it returns the
\* metadata with absent date keys null, present ones parsed, the optional
\* strings copied or null and wacz_version copied.
C6_MetadataDates ==
    (lastOp = "get_metadata" /\ ManifestPasses) =>
        IF \E key \in DateKeys : Rejected(key)
        THEN /\ result.kind = IWE
             /\ \E key \in DateKeys : Rejected(key) /\ result.reason = DateReason(key)
        ELSE result = Ok([wacz_version |-> Manifest.x["wacz_version"],
                          title |-> Copied("title"),
                          description |-> Copied("description"),
                          created |-> DateResult("created"),
                          modified |-> DateResult("modified"),
                          software |-> Copied("software"),
                          main_page_url |-> Copied("mainPageUrl"),
                          main_page_date |-> DateResult("main_page_date")])

-----------------------------------------------------------------------------
(* C7 *)

PagesReadable ==
    /\ archive.openable
    /\ PAGES_JSONL \in archive.names
    /\ \A i \in NonHeader : ValidRecord(Lines[i])

\* record i carries url and the parsed ts of line i (line 0 being the header)
BuiltFrom(record, line) ==
    /\ record.url = line.v.x["url"]
    /\ record.ts = Datetime(IsoInstant(line.v.x["ts"].x))

\* C7 as stated: with every line after the first a valid page record,
\* get_pages() returns one record per such line in file order, and an
\* optional field is null exactly when its key is missing from the line.
C7_NullExactlyWhenMissing ==
    (lastOp = "get_pages" /\ PagesReadable) =>
        /\ IsOk(result)
        /\ Len(result.value) = RecordCount
        /\ \A i \in 1..RecordCount :
              /\ BuiltFrom(result.value[i], Lines[i + 1])
              /\ \A key \in OptionalPageKeys :
                    (result.value[i][key] = JNull) <=> ~HasField(Lines[i + 1], key)

\* C7: with every line after the first a valid page record, get_pages()
\* returns one record per such line in file order (none for a header-only or
\* empty listing, whatever line 0 holds); an optional field is null when its
\* key is missing from the line and is the line's value for the key
\* otherwise.
C7_PagesInFileOrder ==
    (lastOp = "get_pages" /\ PagesReadable) =>
        /\ IsOk(result)
        /\ Len(result.value) = RecordCount
        /\ \A i \in 1..RecordCount :
              /\ BuiltFrom(result.value[i], Lines[i + 1])
              /\ \A key \in OptionalPageKeys :
                    result.value[i][key] =
                        IF HasField(Lines[i + 1], key) THEN Lines[i + 1].v.x[key]
                        ELSE JNull

\* two different records returned in file order behind a header that is not
\* JSON
C7_Witness ==
    /\ lastOp = "get_pages"
    /\ PagesReadable
    /\ IsOk(result)
    /\ Len(Lines) = 3
    /\ Lines[1] = NotJson
    /\ Len(result.value) = 2
    /\ result.value[1] # result.value[2]

-----------------------------------------------------------------------------
(* C8 *)

\* line i is the first line after the header that is no valid page record
FirstInvalid(i) ==
    /\ i \in NonHeader
    /\ ~ValidRecord(Lines[i])
    /\ \A j \in 2..(i - 1) : ValidRecord(Lines[j])

\* validate() gets as far as the page lines
ReachesPages ==
    /\ ManifestPasses
    /\ \E n \in archive.names : ArchiveRegexMatch(n)
    /\ \E n \in archive.names : IndexRegexMatch(n)

\* C8: in validate() and get_pages(), a line after the header that does not
\* parse as JSON, or lacks url, or lacks ts, makes the call fail with
\* InvalidWaczError (url is reported before ts); it is neither skipped nor
\* the cause of any other kind of failure.
C8_OffendingLineIsTyped ==
    (/\ \/ lastOp = "get_pages" /\ archive.openable
        \/ lastOp = "validate" /\ ReachesPages
     /\ PAGES_JSONL \in archive.names
     /\ \E i \in NonHeader : FirstInvalid(i) /\ Offending(Lines[i]))
    => /\ result.kind = IWE
       /\ \A i \in NonHeader :
             (FirstInvalid(i) /\ IsObject(Lines[i]))
             => result.reason = PageReason(Lines[i])

-----------------------------------------------------------------------------
(* C9 *)

\* C9: after every public call, however it ended, no container handle and
\* no member stream is left open; validate() holds two container handles at
\* once, and verify_checksums() opens the container once for the manifest
\* and once more per resource that declares a hash.
C9_NoOpenHandles ==
    /\ handles.zips = 0
    /\ handles.streams = 0
    /\ (lastOp = "validate" /\ archive.openable) => handles.peak = 2
    /\ (lastOp = "verify_checksums" /\ IsOk(result)) =>
          /\ handles.peak = 1
          /\ handles.opened = 1 + Cardinality(Hashed)

\* validate() ended by an untyped error raised while it read the page lines
C9_Witness ==
    /\ lastOp = "validate"
    /\ result.kind = "JSONDecodeError"
    /\ handles.peak = 2
    /\ handles.opened = 2

-----------------------------------------------------------------------------
(* C10 *)

\* Python's `'url' in page` and `'ts' in page` on the decoded line: one of
\* them is false
LacksKey(line) ==
    /\ line.enc = "json"
    /\ \/ line.v.t = "obj" /\ ~({"url", "ts"} \subseteq DOMAIN line.v.x)
       \/ /\ line.v.t = "arr"
          /\ \E key \in {"url", "ts"} :
                \A i \in 1..Len(line.v.x) : line.v.x[i] # JStr(<<key>>)
       \/ /\ line.v.t = "str"
          /\ \E key \in {"url", "ts"} :
                \A i \in 1..Len(line.v.x) : line.v.x[i] # key

WithoutManifest(a) ==
    [a EXCEPT !.names = @ \ {DATAPACKAGE_JSON}, !.datapackage = NotJson]

TimestampErrors == {"Invalid isoformat string", "fromisoformat: argument must be str"}

\* C10 as stated, for listings whose lines after the header are all JSON
\* objects: get_pages() fails with InvalidWaczError exactly when
\* pages/pages.jsonl is absent or some line after the header lacks url or
\* ts; after validate() returned without error it returns one record per
\* such line or fails with the timestamp parser's error.
C10_TypedExactlyWhenSomeLineLacks ==
    (\A i \in NonHeader : IsObject(Lines[i])) =>
        /\ (lastOp = "get_pages" /\ archive.openable) =>
              (result.kind = IWE <=>
                  \/ PAGES_JSONL \notin archive.names
                  \/ \E i \in NonHeader : Offending(Lines[i]))
        /\ (lastOp = "get_pages" /\ validated = "ok") =>
              \/ IsOk(result) /\ Len(result.value) = RecordCount
              \/ result.reason \in TimestampErrors

\* C10: get_pages() does not consult the manifest; it fails with
\* InvalidWaczError exactly when pages/pages.jsonl is absent or the first
\* line after the header that yields no record is one that parses as JSON
\* and tests false for url or ts; after validate() returned without error
\* it does not fail with InvalidWaczError: it returns one record per line
\* after the header or fails with an untyped ValueError or TypeError.
C10_ValidateThenGetPages ==
    /\ lastOp = "get_pages" =>
          result = get_pages(WithoutManifest(archive), NoHandles).out
    /\ (lastOp = "get_pages" /\ archive.openable) =>
          (result.kind = IWE <=>
              \/ PAGES_JSONL \notin archive.names
              \/ \E i \in NonHeader : FirstInvalid(i) /\ LacksKey(Lines[i]))
    /\ (lastOp = "get_pages" /\ validated = "ok") =>
          \/ IsOk(result) /\ Len(result.value) = RecordCount
          \/ result.kind \in {"ValueError", "TypeError"}

\* validate() returned without error and get_pages() then failed on a ts
C10_Witness ==
    /\ lastOp = "get_pages"
    /\ validated = "ok"
    /\ result.kind = "ValueError"

=============================================================================
